---- MODULE Spec2Model ----
(***************************************************************************)
(* The two programs of learn-vulkan-rs as one state machine.               *)
(*                                                                         *)
(*   guide = 1   vulkano-rs-guide-1/src/main.rs: copy one buffer into      *)
(*               another on the device and compare them on the host.       *)
(*   guide = 2   vulkano-rs-guide-2/src/main.rs: multiply every element    *)
(*               of a storage buffer by 12 in a compute shader.            *)
(*                                                                         *)
(* The host thread is the sequence of statements of main(), one action per *)
(* statement, its position kept in pc.  Every .expect()/.unwrap() whose    *)
(* failure the source decides is a branch to pc = "panicked".  The device  *)
(* runs the submitted command buffer on its own timeline: its steps are    *)
(* the Gpu* actions, interleaved with the host's.                          *)
(***************************************************************************)
EXTENDS Integers, Sequences, FiniteSets, TLC

\* ---------------------------------------------------------------- bounds
\* The longest list enumerate_physical_devices() yields.
MaxDevices == 2
\* The most queue families one physical device reports (at least one).
MaxFamilies == 2
\* Elements of source_content / destination_content (64 in guide 1).
CopyLen == 2
\* local_size_x of the shader (64 in guide 2).
LocalSizeX == 2
\* work_group_counts[0] (1024 in guide 2).
WorkGroupCountX == 2

\* ------------------------------------------------------ program constants
\* buf.data[idx] *= 12
Multiplier == 12
\* uint data[]: 32-bit unsigned elements, held here as two 16-bit halves
\* when multiplied so that the product wraps at 2^32.
U16 == 2 ^ 16
\* data_iter = 0..65536u32: one element per invocation of the dispatch,
\* "1024 work groups * local size of 64 = 65536".
DataLen == WorkGroupCountX * LocalSizeX
\* The numbers main() and the shader are written with.
\* let data_iter = 0..65536u32;
GuideDataLen == 65536
\* let work_group_counts = [1024, 1, 1];
GuideWorkGroupCountX == 1024
\* layout(local_size_x = 64, local_size_y = 1, local_size_z = 1) in;
GuideLocalSizeX == 64

\* QueueFlags of a queue family.  Every family can transfer; the families
\* differ in whether they also do compute and graphics work.
FamilyFlags ==
    { {"TRANSFER"},
      {"COMPUTE", "TRANSFER"},
      {"GRAPHICS", "COMPUTE", "TRANSFER"} }

\* A physical device is the list of its queue families' flags;
\* queue family index k is element k + 1 of the list.
PhysicalDevices == UNION { [1..m -> FamilyFlags] : m \in 1..MaxFamilies }

\* What enumerate_physical_devices() can yield, in enumeration order.
DeviceLists == UNION { [1..n -> PhysicalDevices] : n \in 0..MaxDevices }

NoIndex == -1

VARIABLES
    guide,               \* 1 or 2: which main() runs
    pc,                  \* the host's position in main()
    panic,               \* the message main() panicked with, "" if none
    enumerated,          \* the instance's physical devices, in order
    physical_device,     \* position in enumerated of the one selected, 0: none
    queue_family_index,  \* the family found on it, NoIndex: none
    queue_create_infos,  \* the families the logical device was created with
    queue,               \* family of the queue taken from queues.next()
    buffers,             \* name -> [usage, memory, content]
    descriptor_set,      \* binding -> buffer name (guide 2)
    builder,             \* the AutoCommandBufferBuilder
    command_buffer,      \* what builder.build() returned
    submissions,         \* what was flushed to the queue, in order
    future,              \* "None", "Pending", "Signaled", "Failed"
    gpu,                 \* the device's progress through the submission
    at_submit,           \* buffer contents when the submission was flushed
    host_read            \* name -> what buffer.read() returned to the host

vars == << guide, pc, panic, enumerated, physical_device, queue_family_index,
           queue_create_infos, queue, buffers, descriptor_set, builder,
           command_buffer, submissions, future, gpu, at_submit, host_read >>

NoFunction == [n \in {} |-> 0]

\* The capability each main() asks of a queue family.
RequiredFlag == IF guide = 1 THEN "GRAPHICS" ELSE "COMPUTE"

Init ==
    /\ guide \in {1, 2}
    /\ pc = "enumerate_physical_devices"
    /\ panic = ""
    /\ enumerated \in DeviceLists
    /\ physical_device = 0
    /\ queue_family_index = NoIndex
    /\ queue_create_infos = << >>
    /\ queue = NoIndex
    /\ buffers = NoFunction
    /\ descriptor_set = NoFunction
    /\ builder = [state |-> "None", queue_family_index |-> NoIndex, commands |-> << >>]
    /\ command_buffer = [built |-> FALSE, queue_family_index |-> NoIndex, commands |-> << >>]
    /\ submissions = << >>
    /\ future = "None"
    /\ gpu = [next |-> 1, done |-> {}, pipeline |-> << >>, sets |-> NoFunction]
    /\ at_submit = NoFunction
    /\ host_read = NoFunction

Panic(msg) ==
    /\ pc' = "panicked"
    /\ panic' = msg

\* ------------------------------------------------------- device selection

\* .skip(1).next(): the second element of the enumeration, 0 when the
\* enumeration has fewer than two.
SkipOneNext(devs) == IF Len(devs) >= 2 THEN 2 ELSE 0

\* instance.enumerate_physical_devices()....skip(1).next()
\*     .expect("no devices available")
EnumeratePhysicalDevices ==
    /\ pc = "enumerate_physical_devices"
    /\ LET d == SkipOneNext(enumerated) IN
        IF d = 0
        THEN /\ Panic("no devices available")
             /\ UNCHANGED physical_device
        ELSE /\ physical_device' = d
             /\ pc' = "queue_family_index"
             /\ UNCHANGED panic
    /\ UNCHANGED << guide, enumerated, queue_family_index, queue_create_infos,
                    queue, buffers, descriptor_set, builder, command_buffer,
                    submissions, future, gpu, at_submit, host_read >>

\* The 0-based indices of the families of dev whose flags contain flag.
Matching(dev, flag) == { k \in 0..(Len(dev) - 1) : flag \in dev[k + 1] }

\* Mutant: the highest matching index (rposition) instead of the lowest.
PositionLast(dev, flag) ==
    IF Matching(dev, flag) = {}
    THEN NoIndex
    ELSE CHOOSE k \in Matching(dev, flag) : \A j \in Matching(dev, flag) : k >= j

\* .iter().enumerate().position(|(_, q)| q.queue_flags.contains(flag)):
\* the lowest matching index, NoIndex for None.
Position(dev, flag) ==
    IF Matching(dev, flag) = {}
    THEN NoIndex
    ELSE CHOOSE k \in Matching(dev, flag) : \A j \in Matching(dev, flag) : k <= j

\* guide 1: .expect("couldn't find a graphical queue family")
\* guide 2: .expect("couldn't find a compute queue family")
NoFamilyMessage ==
    IF guide = 1 THEN "couldn't find a graphical queue family"
                 ELSE "couldn't find a compute queue family"

FindQueueFamily ==
    /\ pc = "queue_family_index"
    /\ LET k == Position(enumerated[physical_device], RequiredFlag) IN
        IF k = NoIndex
        THEN /\ Panic(NoFamilyMessage)
             /\ UNCHANGED queue_family_index
        ELSE /\ queue_family_index' = k
             /\ pc' = "device_new"
             /\ UNCHANGED panic
    /\ UNCHANGED << guide, enumerated, physical_device, queue_create_infos,
                    queue, buffers, descriptor_set, builder, command_buffer,
                    submissions, future, gpu, at_submit, host_read >>

\* Device::new(physical_device, DeviceCreateInfo { queue_create_infos:
\*     vec![QueueCreateInfo { queue_family_index, .. }], .. })
\* and queues.next().unwrap(): the one queue, of the one family asked for.
DeviceNew ==
    /\ pc = "device_new"
    /\ queue_create_infos' = << queue_family_index >>
    /\ queue' = queue_family_index
    /\ pc' = IF guide = 1 THEN "source" ELSE "data_buffer"
    /\ UNCHANGED << guide, panic, enumerated, physical_device, queue_family_index,
                    buffers, descriptor_set, builder, command_buffer,
                    submissions, future, gpu, at_submit, host_read >>

\* ------------------------------------------------------------- buffers

\* (0..n).collect(): the elements 0, 1, ..., n - 1, indexed from 0.
Range(n) == [i \in 0..(n - 1) |-> i]

\* (0..n).map(|_| 0).collect()
Zeros(n) == [i \in 0..(n - 1) |-> 0]

\* Buffer::from_iter(&memory_allocator, BufferCreateInfo { usage, .. },
\*     AllocationCreateInfo { usage: memory, .. }, iter): a buffer holding
\* exactly the elements of iter.
BufferFromIter(usage, memory, iter) ==
    [usage |-> usage, memory |-> memory, content |-> iter]

HostUnchangedButBuffers ==
    UNCHANGED << guide, panic, enumerated, physical_device, queue_family_index,
                 queue_create_infos, queue, descriptor_set, builder,
                 command_buffer, submissions, future, gpu, at_submit, host_read >>

\* let source = Buffer::from_iter(.., TRANSFER_SRC, Upload, (0..64).collect())
AllocSource ==
    /\ pc = "source"
    /\ buffers' = ("source" :> BufferFromIter({"TRANSFER_SRC"}, "Upload", Range(CopyLen)))
                    @@ buffers
    /\ pc' = "destination"
    /\ HostUnchangedButBuffers

\* let destination = Buffer::from_iter(.., TRANSFER_DST, Download, zeros)
AllocDestination ==
    /\ pc = "destination"
    /\ buffers' = ("destination" :> BufferFromIter({"TRANSFER_DST"}, "Download", Zeros(CopyLen)))
                    @@ buffers
    /\ pc' = "builder"
    /\ HostUnchangedButBuffers

\* let data_buffer = Buffer::from_iter(.., STORAGE_BUFFER, Upload, 0..65536u32)
AllocDataBuffer ==
    /\ pc = "data_buffer"
    /\ buffers' = ("data_buffer" :> BufferFromIter({"STORAGE_BUFFER"}, "Upload", Range(DataLen)))
                    @@ buffers
    /\ pc' = "descriptor_set"
    /\ HostUnchangedButBuffers

\* ------------------------------------------------------------- pipeline

\* mod cs: the shader and the pipeline made of its entry point "main".
\*   layout(local_size_x = 64, local_size_y = 1, local_size_z = 1) in;
\*   layout(set = 0, binding = 0) buffer Data { uint data[]; } buf;
compute_pipeline == [local_size_x |-> LocalSizeX, set |-> 0, binding |-> 0]

\* x * k in uint arithmetic: the product modulo 2^32.
MulU32(x, k) ==
    LET lo == (x % U16) * k
        hi == (x \div U16) * k + (lo \div U16)
    IN  (hi % U16) * U16 + (lo % U16)

\* void main() { uint idx = gl_GlobalInvocationID.x; buf.data[idx] *= 12; }
\* on the elements idxs of data, one invocation each.
CsMain(data, idxs) ==
    [i \in DOMAIN data |-> IF i \in idxs THEN MulU32(data[i], Multiplier) ELSE data[i]]

\* PersistentDescriptorSet::new(.., descriptor_set_layout.clone(),
\*     [WriteDescriptorSet::buffer(0, data_buffer.clone())])
NewDescriptorSet ==
    /\ pc = "descriptor_set"
    /\ descriptor_set' = (0 :> "data_buffer")
    /\ pc' = "builder"
    /\ UNCHANGED << guide, panic, enumerated, physical_device, queue_family_index,
                    queue_create_infos, queue, buffers, builder, command_buffer,
                    submissions, future, gpu, at_submit, host_read >>

\* ------------------------------------------------------ command recording

HostUnchangedButBuilder ==
    UNCHANGED << guide, panic, enumerated, physical_device, queue_family_index,
                 queue_create_infos, queue, buffers, descriptor_set,
                 command_buffer, submissions, future, gpu, at_submit, host_read >>

\* Mutant: the builder is made for the device's first family, whatever it can do.
BuilderFamilyFirst == IF enumerated[physical_device] # << >> THEN 0 ELSE NoIndex

\* guide 1: AutoCommandBufferBuilder::primary(.., queue_family_index, OneTimeSubmit)
\* guide 2: AutoCommandBufferBuilder::primary(.., queue.queue_family_index(), ..)
BuilderFamily == IF guide = 1 THEN queue_family_index ELSE queue

BuilderPrimary ==
    /\ pc = "builder"
    /\ builder' = [state |-> "Recording", queue_family_index |-> BuilderFamily,
                   commands |-> << >>]
    /\ pc' = IF guide = 1 THEN "copy_buffer" ELSE "bind_pipeline_compute"
    /\ HostUnchangedButBuilder

\* A command recorded by the builder that is still recording.
Record(cmd) ==
    /\ builder.state = "Recording"
    /\ builder' = [builder EXCEPT !.commands = Append(@, cmd)]

\* Mutant: the two buffers in the wrong order.
CopyBufferInfoSwapped == [op |-> "copy_buffer", src |-> "destination", dst |-> "source"]

\* CopyBufferInfo::buffers(source.clone(), destination.clone())
CopyBufferInfo == [op |-> "copy_buffer", src |-> "source", dst |-> "destination"]

\* builder.copy_buffer(CopyBufferInfo::buffers(..)).unwrap()
RecordCopyBuffer ==
    /\ pc = "copy_buffer"
    /\ Record(CopyBufferInfo)
    /\ pc' = "build"
    /\ HostUnchangedButBuilder

\* .bind_pipeline_compute(compute_pipeline.clone())
RecordBindPipelineCompute ==
    /\ pc = "bind_pipeline_compute"
    /\ Record([op |-> "bind_pipeline_compute", pipeline |-> compute_pipeline])
    /\ pc' = "bind_descriptor_sets"
    /\ HostUnchangedButBuilder

\* .bind_descriptor_sets(PipelineBindPoint::Compute, compute_pipeline.layout().clone(),
\*     descriptor_set_layout_index as u32, descriptor_set)
RecordBindDescriptorSets ==
    /\ pc = "bind_descriptor_sets"
    /\ Record([op |-> "bind_descriptor_sets", first_set |-> 0, set |-> descriptor_set])
    /\ pc' = "dispatch"
    /\ HostUnchangedButBuilder

\* Mutant: one work group too few.
work_group_counts_short == << WorkGroupCountX - 1, 1, 1 >>

\* Mutant: one work group too many.
work_group_counts_long == << WorkGroupCountX + 1, 1, 1 >>

\* let work_group_counts = [1024, 1, 1];
work_group_counts == << WorkGroupCountX, 1, 1 >>

\* .dispatch(work_group_counts).unwrap()
RecordDispatch ==
    /\ pc = "dispatch"
    /\ Record([op |-> "dispatch", group_counts |-> work_group_counts])
    /\ pc' = "build"
    /\ HostUnchangedButBuilder

\* let command_buffer = builder.build().unwrap(): the builder is consumed.
Build ==
    /\ pc = "build"
    /\ builder.state = "Recording"
    /\ command_buffer' = [built |-> TRUE,
                          queue_family_index |-> builder.queue_family_index,
                          commands |-> builder.commands]
    /\ builder' = [builder EXCEPT !.state = "Built"]
    /\ pc' = "then_execute"
    /\ UNCHANGED << guide, panic, enumerated, physical_device, queue_family_index,
                    queue_create_infos, queue, buffers, descriptor_set,
                    submissions, future, gpu, at_submit, host_read >>

\* ------------------------------------------------- submission and readback

\* sync::now(device).then_execute(queue, command_buffer).unwrap()
\*     .then_signal_fence_and_flush().unwrap()
\* hands the command buffer to the queue and returns at once, the work pending.
ThenExecuteFlush ==
    /\ pc = "then_execute"
    /\ command_buffer.built
    /\ submissions' = Append(submissions,
                             [queue |-> queue, command_buffer |-> command_buffer])
    /\ future' = "Pending"
    /\ at_submit' = [n \in DOMAIN buffers |-> buffers[n].content]
    /\ pc' = "wait"
    /\ UNCHANGED << guide, panic, enumerated, physical_device, queue_family_index,
                    queue_create_infos, queue, buffers, descriptor_set, builder,
                    command_buffer, gpu, host_read >>

\* Mutant: wait() returns without blocking.
WaitReturnsAtOnce == TRUE

\* future.wait(None) blocks the host until the fence is signaled or the
\* submission is reported to have failed.
WaitReturns == future \in {"Signaled", "Failed"}

\* future.wait(None).unwrap()
Wait ==
    /\ pc = "wait"
    /\ WaitReturns
    /\ IF future = "Failed"
       THEN Panic("called Result::unwrap() on an Err value")
       ELSE /\ pc' = IF guide = 1 THEN "src_content" ELSE "content"
            /\ UNCHANGED panic
    /\ UNCHANGED << guide, enumerated, physical_device, queue_family_index,
                    queue_create_infos, queue, buffers, descriptor_set, builder,
                    command_buffer, submissions, future, gpu, at_submit, host_read >>

\* Where the host goes after each read.
AfterRead(var) == IF var = "src_content" THEN "destination_content" ELSE "assert"

\* The buffer each variable of main() is read from.
ReadFrom(var) ==
    CASE var = "src_content" -> "source"
      [] var = "destination_content" -> "destination"
      [] var = "content" -> "data_buffer"

\* let <var> = <buffer>.read().unwrap(): the buffer's contents as they are
\* in memory at the call; nothing else is touched.
BufferRead ==
    /\ pc \in {"src_content", "destination_content", "content"}
    /\ host_read' = (pc :> buffers[ReadFrom(pc)].content) @@ host_read
    /\ pc' = AfterRead(pc)
    /\ UNCHANGED << guide, panic, enumerated, physical_device, queue_family_index,
                    queue_create_infos, queue, buffers, descriptor_set, builder,
                    command_buffer, submissions, future, gpu, at_submit >>

\* guide 1: assert_eq!(&*src_content, &*destination_content)
\* guide 2: for (n, val) in content.iter().enumerate()
\*              { assert_eq!(*val, n as u32 * 12) }
AssertHolds ==
    IF guide = 1
    THEN host_read["src_content"] = host_read["destination_content"]
    ELSE \A n \in DOMAIN host_read["content"] : host_read["content"][n] = n * 12

\* The assertion, then println!("Everything succeeded!") and the end of main().
AssertEq ==
    /\ pc = "assert"
    /\ IF AssertHolds
       THEN pc' = "done" /\ UNCHANGED panic
       ELSE Panic("assertion failed: (left == right)")
    /\ UNCHANGED << guide, enumerated, physical_device, queue_family_index,
                    queue_create_infos, queue, buffers, descriptor_set, builder,
                    command_buffer, submissions, future, gpu, at_submit, host_read >>

\* ------------------------------------------------------------ the device

\* Mutant: the queue runs the commands last recorded first.
GpuCommandsReversed ==
    LET cmds == submissions[1].command_buffer.commands IN
    [i \in 1..Len(cmds) |-> cmds[Len(cmds) + 1 - i]]

\* The commands of the submission the queue is executing.
GpuCommands == submissions[1].command_buffer.commands

GpuRunning ==
    /\ future = "Pending"
    /\ submissions # << >>
    /\ gpu.next <= Len(GpuCommands)

GpuUnchanged ==
    UNCHANGED << guide, pc, panic, enumerated, physical_device, queue_family_index,
                 queue_create_infos, queue, descriptor_set, builder,
                 command_buffer, submissions, at_submit, host_read >>

\* One more unit u of the current command's units is done; the command is
\* over with its last unit.
GpuAdvance(units, u) ==
    IF gpu.done \cup {u} = units
    THEN [gpu EXCEPT !.next = @ + 1, !.done = {}]
    ELSE [gpu EXCEPT !.done = @ \cup {u}]

\* copy_buffer on the device: the elements of src are written to dst, in no
\* particular order, one element a step.
GpuCopyBuffer ==
    /\ GpuRunning
    /\ LET cmd == GpuCommands[gpu.next] IN
        /\ cmd.op = "copy_buffer"
        /\ \E i \in (DOMAIN buffers[cmd.src].content) \ gpu.done :
            /\ buffers' = [buffers EXCEPT ![cmd.dst].content[i] = buffers[cmd.src].content[i]]
            /\ gpu' = GpuAdvance(DOMAIN buffers[cmd.src].content, i)
    /\ UNCHANGED future
    /\ GpuUnchanged

\* bind_pipeline_compute on the device: the pipeline later dispatches run.
GpuBindPipelineCompute ==
    /\ GpuRunning
    /\ LET cmd == GpuCommands[gpu.next] IN
        /\ cmd.op = "bind_pipeline_compute"
        /\ gpu' = [gpu EXCEPT !.pipeline = << cmd.pipeline >>, !.next = @ + 1]
    /\ UNCHANGED << buffers, future >>
    /\ GpuUnchanged

\* bind_descriptor_sets on the device: the buffers later dispatches work on.
GpuBindDescriptorSets ==
    /\ GpuRunning
    /\ LET cmd == GpuCommands[gpu.next] IN
        /\ cmd.op = "bind_descriptor_sets"
        /\ gpu' = [gpu EXCEPT !.sets = (cmd.first_set :> cmd.set) @@ @, !.next = @ + 1]
    /\ UNCHANGED << buffers, future >>
    /\ GpuUnchanged

\* gl_GlobalInvocationID.x of the invocations of work group g:
\* gl_WorkGroupID.x * local_size_x + gl_LocalInvocationID.x.
GlobalInvocationIDs(g, local_size_x) ==
    { g * local_size_x + l : l \in 0..(local_size_x - 1) }

\* dispatch on the device: work_group_counts[0] work groups (the other two
\* counts are 1), in no particular order, one work group a step; each runs
\* the bound pipeline's main() once per local invocation on the buffer bound
\* at the shader's (set, binding).
GpuDispatch ==
    /\ GpuRunning
    /\ gpu.pipeline # << >>
    /\ LET cmd == GpuCommands[gpu.next] IN
        /\ cmd.op = "dispatch"
        /\ LET p == gpu.pipeline[1]
               groups == 0..(cmd.group_counts[1] - 1)
           IN /\ p.set \in DOMAIN gpu.sets
              /\ \E g \in groups \ gpu.done :
                  /\ buffers' = [buffers EXCEPT ![gpu.sets[p.set][p.binding]].content =
                                    CsMain(@, GlobalInvocationIDs(g, p.local_size_x))]
                  /\ gpu' = GpuAdvance(groups, g)
    /\ UNCHANGED future
    /\ GpuUnchanged

\* Mutant: the fence is signaled although commands are still to run.
GpuSignalFenceEarly ==
    /\ future = "Pending"
    /\ submissions # << >>
    /\ future' = "Signaled"
    /\ UNCHANGED << buffers, gpu >>
    /\ GpuUnchanged

\* then_signal_fence: the fence is signaled once every command has run.
GpuSignalFence ==
    /\ future = "Pending"
    /\ submissions # << >>
    /\ gpu.next > Len(GpuCommands)
    /\ future' = "Signaled"
    /\ UNCHANGED << buffers, gpu >>
    /\ GpuUnchanged

\* The device is lost while the submission is pending: wait() returns Err.
GpuFail ==
    /\ future = "Pending"
    /\ future' = "Failed"
    /\ UNCHANGED << buffers, gpu >>
    /\ GpuUnchanged

\* ------------------------------------------------------------ properties

\* The variables of main() that hold what a read returned.
ReadVars == {"src_content", "destination_content", "content"}

\* C1: in guide 1 the two buffers have the same size, source carries
\* TRANSFER_SRC and destination TRANSFER_DST; from the submission on source
\* keeps the contents it had when submitted, and what read(destination)
\* returns after the wait equals those contents element for element.
C1_CopyFidelity ==
    (guide = 1 /\ "source" \in DOMAIN at_submit) =>
        /\ "TRANSFER_SRC" \in buffers["source"].usage
        /\ "TRANSFER_DST" \in buffers["destination"].usage
        /\ DOMAIN buffers["source"].content = DOMAIN buffers["destination"].content
        /\ buffers["source"].content = at_submit["source"]
        /\ "src_content" \in DOMAIN host_read =>
               host_read["src_content"] = at_submit["source"]
        /\ "destination_content" \in DOMAIN host_read =>
               /\ DOMAIN host_read["destination_content"] = DOMAIN at_submit["source"]
               /\ \A i \in DOMAIN at_submit["source"] :
                      host_read["destination_content"][i] = at_submit["source"][i]

\* C1's case: the copy was submitted, waited for and read back, and the
\* destination no longer holds the zeros it was created with.
C1_Witness ==
    /\ guide = 1
    /\ pc = "done"
    /\ future = "Signaled"
    /\ host_read["destination_content"] # Zeros(CopyLen)
    /\ at_submit["destination"] = Zeros(CopyLen)

\* C2: in guide 2, what read(data_buffer) returns after the wait has, at
\* every index i of the buffer, the value the buffer had at i when submitted
\* (which is i) times the shader's multiplier.
C2_MultiplyByK ==
    (guide = 2 /\ "content" \in DOMAIN host_read) =>
        /\ at_submit["data_buffer"] = Range(DataLen)
        /\ DOMAIN host_read["content"] = 0..(DataLen - 1)
        /\ \A i \in 0..(DataLen - 1) :
               host_read["content"][i] = at_submit["data_buffer"][i] * Multiplier

\* C2's case: the dispatch was submitted, waited for and read back.
C2_Witness ==
    /\ guide = 2
    /\ pc = "done"
    /\ future = "Signaled"
    /\ host_read["content"][DataLen - 1] = (DataLen - 1) * Multiplier

\* C3: whenever the host is about to read a buffer, or has read one, the
\* future of the submission is Signaled and the device has run every command
\* of it (no read happens while the submission is pending); and a read step
\* needs nothing of the future and leaves the future, the device and the
\* buffers as they were.
C3_ReadOnlyAfterWait ==
    /\ [](  (pc \in ReadVars \/ DOMAIN host_read # {}) =>
               /\ future = "Signaled"
               /\ gpu.next > Len(GpuCommands)  )
    /\ []( pc \in ReadVars => ENABLED BufferRead )
    /\ [][ BufferRead => (future' = future /\ gpu' = gpu /\ buffers' = buffers) ]_vars

\* C3's case: a buffer the submission wrote has been read, after the wait.
C3_Witness ==
    /\ \E var \in {"destination_content", "content"} : var \in DOMAIN host_read
    /\ future = "Signaled"
    /\ \E n \in DOMAIN buffers : buffers[n].content # at_submit[n]

\* The enumeration holds a device with a queue family of the required flag.
AnyCapable ==
    \E d \in 1..Len(enumerated) : Matching(enumerated[d], RequiredFlag) # {}

\* C10: device selection succeeds whenever some enumerated device has a queue
\* family with the required capability; it fails with "no devices available"
\* only when the enumeration is empty, and with "couldn't find a ... queue
\* family" only when no family of any enumerated device matches.
C10_SelectConsidersEveryDevice ==
    /\ (panic = "no devices available") => (Len(enumerated) = 0)
    /\ (panic = NoFamilyMessage) => ~AnyCapable
    /\ (AnyCapable /\ pc \notin {"enumerate_physical_devices", "queue_family_index"})
           => queue_family_index # NoIndex

\* C11: once a queue family is chosen on the selected device, its flags
\* contain the required capability (GRAPHICS in guide 1, COMPUTE in guide 2)
\* and no family of a lower index has it; and the logical device is created
\* with exactly that one family: one QueueCreateInfo, one queue, of it.
C11_FirstMatchingFamilyOnly ==
    /\ queue_family_index # NoIndex =>
           LET dev == enumerated[physical_device] IN
           /\ queue_family_index \in 0..(Len(dev) - 1)
           /\ RequiredFlag \in dev[queue_family_index + 1]
           /\ \A j \in 0..(queue_family_index - 1) : RequiredFlag \notin dev[j + 1]
    /\ queue_create_infos # << >> =>
           /\ queue_family_index # NoIndex
           /\ queue_create_infos = << queue_family_index >>
           /\ queue = queue_family_index

\* C11's case: the device was created on a family that is not the first of
\* the selected physical device, the first one lacking the capability.
C11_Witness ==
    /\ queue_create_infos # << >>
    /\ queue_family_index = 1
    /\ Len(enumerated[physical_device]) = 2

BuffersOf(cmd) ==
    CASE cmd.op = "copy_buffer" -> {cmd.src, cmd.dst}
      [] cmd.op = "bind_descriptor_sets" -> {cmd.set[b] : b \in DOMAIN cmd.set}
      [] OTHER -> {}

\* The buffers the commands cmds refer to.
BuffersOfAll(cmds) == UNION { BuffersOf(cmds[j]) : j \in 1..Len(cmds) }

\* A submission that has not finished refers to buffer n.
PendingOn(n) ==
    /\ future = "Pending"
    /\ \E i \in 1..Len(submissions) : n \in BuffersOfAll(submissions[i].command_buffer.commands)

\* main() is over, by returning or by a panic unwinding it: its locals,
\* which it keeps to its end (nothing is dropped or goes out of scope
\* earlier), have been dropped.
Exited == pc \in {"done", "panicked"}

\* The locals of main() that hold a reference to buffer n: its handle; the
\* descriptor set made of a clone of it, until the set is moved into the
\* builder; the builder that recorded a command on a clone of it, until
\* build() consumes it; the command buffer, until then_execute() takes it;
\* and from then on the future.
Holders(n) ==
    IF Exited THEN {}
    ELSE  (IF n \in DOMAIN buffers THEN {n} ELSE {})
          \cup (IF /\ pc \in {"builder", "bind_pipeline_compute", "bind_descriptor_sets"}
                   /\ \E b \in DOMAIN descriptor_set : descriptor_set[b] = n
                THEN {"descriptor_set"} ELSE {})
          \cup (IF builder.state = "Recording" /\ n \in BuffersOfAll(builder.commands)
                THEN {"builder"} ELSE {})
          \cup (IF /\ command_buffer.built
                   /\ submissions = << >>
                   /\ n \in BuffersOfAll(command_buffer.commands)
                THEN {"command_buffer"} ELSE {})
          \cup (IF \E i \in 1..Len(submissions) :
                       n \in BuffersOfAll(submissions[i].command_buffer.commands)
                THEN {"future"} ELSE {})

\* The buffers whose memory has been freed: a buffer goes with the last
\* reference to it, and the references live in main()'s locals.
Released == { n \in DOMAIN buffers : Holders(n) = {} }

\* C16: a buffer is freed only when nothing holds a reference to it any
\* more (no handle of main(), no descriptor set, no builder, command buffer
\* or future) and no submission that refers to it is pending: while main()
\* runs every buffer is held, a submitted one by the future too, and none is
\* freed; the only step that frees a buffer is the one that ends main(), and
\* after it no freed buffer has a holder or a pending submission using it.
C16_ReleasedOnlyUnreferenced ==
    /\ []( \A n \in DOMAIN buffers :
             IF Exited
             THEN n \in Released /\ ~PendingOn(n)
             ELSE /\ n \in Holders(n)
                  /\ PendingOn(n) => "future" \in Holders(n) )
    /\ []( ~Exited => Released = {} )
    /\ [][ (~Exited /\ Exited') => (future' # "Pending" /\ Released' = DOMAIN buffers) ]_vars

\* C16's case: the copy ran and was waited for, main() returned, and the
\* two buffers, which the future held through the command buffer, are freed
\* with the submission finished.
C16_Witness ==
    /\ guide = 1
    /\ pc = "done"
    /\ future = "Signaled"
    /\ Released = {"source", "destination"}
    /\ BuffersOfAll(GpuCommands) = {"source", "destination"}

\* The names of the operations of a command sequence.
Ops(cmds) == [i \in 1..Len(cmds) |-> cmds[i].op]

\* C17: the device runs the commands of the submitted command buffer in the
\* order the builder recorded them, one after the other; in guide 2 that
\* order is bind_pipeline_compute, bind_descriptor_sets, dispatch, and every
\* step of the dispatch runs with the pipeline and the descriptor set the
\* two commands before it bound.
C17_RecordedOrder ==
    /\ []( submissions # << >> =>
             /\ GpuCommands = builder.commands
             /\ guide = 2 =>
                    Ops(GpuCommands) =
                        << "bind_pipeline_compute", "bind_descriptor_sets", "dispatch" >> )
    /\ [][ gpu'.next \in {gpu.next, gpu.next + 1} ]_vars
    /\ [][ GpuBindPipelineCompute => (gpu.next = 1 /\ gpu'.next = 2) ]_vars
    /\ [][ GpuBindDescriptorSets => (gpu.next = 2 /\ gpu'.next = 3) ]_vars
    /\ [][ GpuDispatch =>
             /\ gpu.next = 3
             /\ gpu.pipeline = << compute_pipeline >>
             /\ gpu.sets = (0 :> descriptor_set) ]_vars
    /\ []( (guide = 2 /\ submissions # << >> /\ gpu.next <= 3) =>
             buffers["data_buffer"].content # CsMain(at_submit["data_buffer"], 0..(DataLen - 1)) )

\* C17's case: the device is in the middle of the dispatch, both binds done.
C17_Witness ==
    /\ guide = 2
    /\ future = "Pending"
    /\ gpu.next = 3
    /\ gpu.done # {}
    /\ gpu.pipeline = << compute_pipeline >>

\* C19: a command buffer is submitted to a queue of the family its builder
\* was created for, that queue being the one queue the device was created
\* with; there is never more than one submission, and once main() is past
\* then_execute there is exactly one.
C19_SubmittedToOwnFamily ==
    /\ Len(submissions) <= 1
    /\ Len(queue_create_infos) <= 1
    /\ builder.state # "None" =>
           /\ queue_create_infos = << builder.queue_family_index >>
           /\ builder.queue_family_index = queue
    /\ \A i \in 1..Len(submissions) :
           /\ submissions[i].command_buffer.queue_family_index = submissions[i].queue
           /\ submissions[i].command_buffer.queue_family_index = builder.queue_family_index
           /\ queue_create_infos = << submissions[i].queue >>
    /\ (pc \in {"wait", "src_content", "destination_content", "content", "assert", "done"})
           => Len(submissions) = 1
    /\ (pc \in {"enumerate_physical_devices", "queue_family_index", "device_new",
                "source", "destination", "data_buffer", "descriptor_set", "builder",
                "copy_buffer", "bind_pipeline_compute", "bind_descriptor_sets",
                "dispatch", "build", "then_execute"})
           => submissions = << >>

\* C19's case: main() ran to its end on a device whose first family lacks
\* the capability, so that the one submission went to family 1.
C19_Witness ==
    /\ pc = "done"
    /\ Len(submissions) = 1
    /\ submissions[1].queue = 1
    /\ submissions[1].command_buffer.queue_family_index = 1

\* The invocations of the work groups gs of the recorded dispatch.
InvocationsOf(gs) ==
    UNION { GlobalInvocationIDs(g, compute_pipeline.local_size_x) : g \in gs }

\* C20: the numbers of guide 2 agree: 1024 work groups of 64 invocations are
\* 65536 invocations, the length of the buffer, and the largest product,
\* 65535 * 12, is below 2^32.  In the run: once submitted, an element of the
\* buffer is its index times 12 if its work group has run and its index
\* otherwise; at every step of the dispatch the invocations of its work
\* groups are exactly the indices of the buffer, none past its end, and as
\* many as groups times local size, so that no two have the same index; and
\* the step multiplies the elements of one work group that had not run, once
\* each, the product unwrapped, and leaves the others alone.
C20_DispatchCoversBuffer ==
    /\ []( /\ GuideWorkGroupCountX * GuideLocalSizeX = GuideDataLen
           /\ ((GuideDataLen - 1) * Multiplier) \div U16 < U16 )
    /\ []( (guide = 2 /\ submissions # << >>) =>
             LET data == buffers["data_buffer"].content
                 ran == InvocationsOf(IF gpu.next > 3
                                      THEN 0..(GpuCommands[3].group_counts[1] - 1)
                                      ELSE IF gpu.next = 3 THEN gpu.done ELSE {})
             IN  \A i \in 0..(DataLen - 1) :
                     data[i] = IF i \in ran THEN i * Multiplier ELSE i )
    /\ [][ GpuDispatch =>
             LET data == buffers["data_buffer"].content
                 count == GpuCommands[3].group_counts[1]
                 groups == 0..(count - 1)
                 all == InvocationsOf(groups)
             IN  /\ count * compute_pipeline.local_size_x = DataLen
                 /\ all = DOMAIN data
                 /\ Cardinality(all) = count * compute_pipeline.local_size_x
                 /\ \E g \in groups \ gpu.done :
                        \A i \in DOMAIN data :
                            /\ data[i] * Multiplier = MulU32(data[i], Multiplier)
                            /\ buffers'["data_buffer"].content[i] =
                                   IF i \in InvocationsOf({g})
                                   THEN data[i] * Multiplier
                                   ELSE data[i] ]_vars

\* C20's case: the dispatch has run, and the last element of the buffer, the
\* last invocation of the last work group, holds its index times 12.
C20_Witness ==
    /\ guide = 2
    /\ submissions # << >>
    /\ gpu.next > 3
    /\ buffers["data_buffer"].content[DataLen - 1] = (DataLen - 1) * Multiplier
    /\ (DataLen - 1) \in InvocationsOf({WorkGroupCountX - 1})

Next ==
    \/ EnumeratePhysicalDevices
    \/ FindQueueFamily
    \/ DeviceNew
    \/ AllocSource
    \/ AllocDestination
    \/ AllocDataBuffer
    \/ NewDescriptorSet
    \/ BuilderPrimary
    \/ RecordCopyBuffer
    \/ RecordBindPipelineCompute
    \/ RecordBindDescriptorSets
    \/ RecordDispatch
    \/ Build
    \/ ThenExecuteFlush
    \/ Wait
    \/ BufferRead
    \/ AssertEq
    \/ GpuCopyBuffer
    \/ GpuBindPipelineCompute
    \/ GpuBindDescriptorSets
    \/ GpuDispatch
    \/ GpuSignalFence
    \/ GpuFail

Spec == Init /\ [][Next]_vars
====
